---------------------------- MODULE Spec2Model ----------------------------
(***************************************************************************)
(* A model of tabbed's streaming Reader (src/src/tabbed/reading.py), the   *)
(* Sniffer it consults (src/sniffing.py) and the Tabulator it applies      *)
(* (src/tabs.py).                                                          *)
(*                                                                         *)
(* A file is a sequence of lines; a line is the sequence of its cells (the *)
(* strings between delimiters).  The empty sequence is a blank line.  Line *)
(* numbers are zero-based as in the source, so line l is file[l + 1].      *)
(***************************************************************************)
EXTENDS Integers, Sequences, FiniteSets, TLC

VARIABLES
    file,       \* Reader.infile: the lines of the open file
    pos,        \* the stream cursor: the number of the next line to be read
    sniffer,    \* Reader._sniffer: start, amount, skips and the sample
    header,     \* Reader._header
    tabulator,  \* Reader.tabulator
    errors,     \* Reader.errors: the casting and ragged logs
    gen,        \* the generator object the latest read() call returned
    out,        \* history: the chunks the latest generator has yielded
    trace,      \* history: every row the latest generator gave the tabulator
    prev,       \* history: the pass before, when it ran to exhaustion
    assigned,   \* history: the latest assignment to the header or the sniffer
    probe,      \* the latest call on a Sniffer, a tab or a Tabulator of its own
    readers,    \* the Readers of src/reader.py a caller has constructed
    hook        \* Sniffer.__setattr__: the Reader of src/reader.py it reports to

vars ==
    <<file, pos, sniffer, header, tabulator, errors, gen, out, trace, prev, assigned,
      probe, readers, hook>>

\* What the Reader of src/src/tabbed/reading.py does not touch.
apart == <<probe, readers, hook>>

-----------------------------------------------------------------------------
(* Python values *)

\* Python's None where an integer is expected (Header.line, MetaData.lines[1],
\* the start argument of read).
None == -1

\* A cell of a decoded row: a type tag and the text of the value.
NoneCell == [t |-> "None", v |-> ""]

\* bool(x) of an Optional[int]: None and 0 are both false.
Truthy(x) == x # None /\ x # 0

Min(a, b) == IF a <= b THEN a ELSE b

Max(a, b) == IF a >= b THEN a ELSE b

\* s[i] with Python's zero-based index.
At(s, i) == s[i + 1]

\* s[-1]
Last(s) == s[Len(s)]

\* {s[i]}
Range(s) == {s[i] : i \in 1..Len(s)}

\* list.index(x): the zero-based index of the first occurrence of x.
Index(s, x) == (CHOOSE i \in 1..Len(s) : s[i] = x /\ \A j \in 1..(i - 1) : s[j] # x) - 1

-----------------------------------------------------------------------------
(* Bounds of the model *)

\* The largest start argument a caller passes to read().
MaxStart == 3

\* The largest chunksize a caller passes to read().
MaxChunk == 2

-----------------------------------------------------------------------------
(* The files read *)

\* The strings complex() accepts (is_numeric); all of them are integers.
NumericStrings == {"1", "2", "3", "4", "5", "6", "7", "8", "9"}

\* One metadata line, a header on line 1, a blank line and a line of empty
\* fields inside the data section.
FileMetaHeader ==
    << <<"t", "x", "y">>,
       <<"a", "b">>,
       <<"1", "2">>,
       <<>>,
       <<"1", "3">>,
       <<"", "">>,
       <<"4", "2">>,
       <<"1", "5">> >>

\* The header on line 0 and two short data rows.
FileHeader0 ==
    << <<"a", "b c">>,
       <<"1", "2">>,
       <<"3">>,
       <<"4">>,
       <<"5", "2">> >>

\* The header on line 0 and a data row with a surplus field.
FileSurplus ==
    << <<"a", "b">>,
       <<"1", "2">>,
       <<"1", "3", "9">>,
       <<"1", "4">> >>

\* Two metadata lines, no header.
FileMeta ==
    << <<"t">>,
       <<"u", "v", "w">>,
       <<"1", "2">>,
       <<"1", "3">>,
       <<"1", "4">>,
       <<"5", "1">>,
       <<"1", "6">> >>

\* Data only.
FileData ==
    << <<"1", "2">>,
       <<"1", "3">>,
       <<"4", "1">>,
       <<"1", "5">> >>

\* A single metadata line on line 0, no header.
FileMeta0 ==
    << <<"t", "u", "v">>,
       <<"1", "2">>,
       <<"1", "3">>,
       <<"4", "1">>,
       <<"1", "5">> >>

Files == {FileMetaHeader, FileHeader0, FileSurplus, FileMeta, FileData, FileMeta0}

\* The names of a synthesised header.
ColumnNames == <<"Column_0", "Column_1", "Column_2", "Column_3">>

-----------------------------------------------------------------------------
(* The Sniffer (src/sniffing.py) *)

\* The default of Sniffer's amount argument.
DefaultAmount == 100

\* is_numeric: complex(astring) succeeds.
is_numeric(astring) == astring \in NumericStrings

\* The largest element of a non-empty set of integers.
Maximum(S) == CHOOSE x \in S : \A y \in S : y <= x

\* Sniffer.line_count
line_count(f) == Len(f)

\* The loop of Sniffer._resample: amount lines are collected from loc on,
\* skipped lines are not counted.  readline() past the end of the file
\* returns '', which adds nothing to the joined sample string, but its line
\* number is recorded all the same.
RECURSIVE resample_loop(_, _, _, _, _, _)
resample_loop(f, amount, skips, loc, n, acc) ==
    IF ~(n < amount) THEN acc
    ELSE IF loc \notin skips
         THEN resample_loop(f, amount, skips, loc + 1, n + 1,
                [lines |-> IF loc < Len(f) THEN Append(acc.lines, f[loc + 1])
                                           ELSE acc.lines,
                 line_nums |-> Append(acc.line_nums, loc)])
         ELSE resample_loop(f, amount, skips, loc + 1, n, acc)

\* Sniffer._resample: the lines of the sample string and their line numbers.
_resample(f, start, amount, skips) ==
    resample_loop(f, amount, skips, start, 0, [lines |-> <<>>, line_nums |-> <<>>])

\* Sniffer.__init__: start and amount are clamped to the file, then sampled.
SnifferInit(f, start, amount, skips) ==
    LET _start == Min(start, line_count(f) - 1)
        _amount == Min(line_count(f) - _start, amount)
    IN [start |-> _start, amount |-> _amount, skips |-> skips,
        sample |-> _resample(f, _start, _amount, skips)]

\* str.rstrip(sep) on a line: the trailing empty cells go.
RECURSIVE rstrip(_)
rstrip(cells) ==
    IF cells = <<>> THEN <<>>
    ELSE IF Last(cells) = "" THEN rstrip(SubSeq(cells, 1, Len(cells) - 1))
    ELSE cells

\* One line of Sniffer.rows: stripped of trailing delimiters, then split; the
\* split of an empty string is one empty cell.
split_line(cells) == IF rstrip(cells) = <<>> THEN <<"">> ELSE rstrip(cells)

\* Sniffer.rows
rows(sn) == [i \in 1..Len(sn.sample.lines) |-> split_line(sn.sample.lines[i])]

\* Sniffer._nonnumeric: the last row with no numeric cell, no empty cell and
\* the length of the last row.
_nonnumeric(rws, line_nums) ==
    LET n == Min(Len(rws), Len(line_nums))
        hits == {i \in 1..n :
                    /\ ~(\E c \in Range(rws[i]) : is_numeric(c))
                    /\ \A c \in Range(rws[i]) : c # ""
                    /\ Len(rws[i]) = Len(Last(rws))}
    IN IF hits = {} THEN None ELSE line_nums[Maximum(hits)]

\* Sniffer._disjointed: the last row above the last one that shares no cell
\* with any row below it.
_disjointed(rws, line_nums) ==
    LET n == Min(Len(rws), Len(line_nums))
        hits == {i \in 1..(n - 1) :
                    \A j \in (i + 1)..n : Range(rws[i]) \cap Range(rws[j]) = {}}
    IN IF hits = {} THEN None ELSE line_nums[Maximum(hits)]

\* Sniffer._mislengthed: the last row whose length is not the last row's.
_mislengthed(rws, line_nums) ==
    LET n == Min(Len(rws), Len(line_nums))
        hits == {i \in 1..n : Len(rws[i]) # Len(Last(rws))}
    IN IF hits = {} THEN None ELSE line_nums[Maximum(hits)]

\* Header.__post_init__: blanks in a name become underscores.
underscored(name) == IF name = "b c" THEN "b_c" ELSE name

\* Header(line, names, string)
Header(line, names) ==
    [line |-> line, names |-> [i \in 1..Len(names) |-> underscored(names[i])]]

\* Sniffer.header
sniffer_header(sn) ==
    LET rws == rows(sn)
        line_nums == sn.sample.line_nums
        numeric == \E c \in Range(Last(rws)) : is_numeric(c)
        found == IF numeric THEN _nonnumeric(rws, line_nums)
                            ELSE _disjointed(rws, line_nums)
        idx == IF Truthy(found) THEN Index(line_nums, found) ELSE None
        num == IF ~numeric /\ Truthy(idx) /\ Len(At(rws, idx)) # Len(Last(rws))
               THEN None ELSE found
    IN IF num = None
       THEN Header(None, SubSeq(ColumnNames, 1, Len(Last(rws))))
       ELSE Header(num, At(rws, Index(line_nums, num)))

\* A MetaData string: None, or the sample lines it is joined from.
NoString == [some |-> FALSE, text |-> <<>>]

\* bool(string) of a MetaData string: not None and not ''.
StringTruthy(string) ==
    /\ string.some
    /\ \/ Len(string.text) >= 2
       \/ Len(string.text) = 1 /\ string.text[1] # <<>>

\* Sniffer.metadata(header): line is header.line, or None when the header
\* argument is None.
metadata(sn, line) ==
    LET rws == rows(sn)
        line_nums == sn.sample.line_nums
        mislengthed == _mislengthed(rws, line_nums)
        disjointed == _disjointed(rws, line_nums)
        nonnumeric == _nonnumeric(rws, line_nums)
        first == IF \A c \in Range(Last(rws)) : is_numeric(c)
                 THEN {x \in {mislengthed, nonnumeric} : Truthy(x)}
                 ELSE {}
        nums == IF \E c \in Range(Last(rws)) : is_numeric(c)
                THEN {x \in {mislengthed, disjointed, nonnumeric} : Truthy(x)}
                ELSE {x \in {mislengthed, disjointed} : Truthy(x)}
        line_num == IF nums = {} THEN None ELSE Maximum(nums)
    IN IF Truthy(line)
       THEN [lines |-> <<0, line>>,
             string |-> [some |-> TRUE,
                         text |-> SubSeq(sn.sample.lines, 1, Index(line_nums, line))]]
       ELSE IF line_num = None
       THEN [lines |-> <<0, None>>, string |-> NoString]
       ELSE [lines |-> <<0, line_num>>,
             string |-> [some |-> TRUE,
                         text |-> <<At(sn.sample.lines, Index(line_nums, line_num) + 1)>>]]

\* type(convert(astring)) for the cells of the model: "int" or "str".
type_of(astring) == IF is_numeric(astring) THEN "int" ELSE "str"

\* Sniffer.types: per column of the last row, the most common type among the
\* last count rows (Counter.most_common: of equally common types the one met
\* first).
types(sn, count) ==
    LET all == rows(sn)
        rws == SubSeq(all, Max(1, Len(all) - count + 1), Len(all))
    IN [i \in 1..Len(Last(rws)) |->
            LET col == SelectSeq(rws, LAMBDA r : Len(r) >= i)
                ints == Cardinality({j \in 1..Len(col) : type_of(col[j][i]) = "int"})
                strs == Len(col) - ints
            IN IF ints > strs THEN "int"
               ELSE IF strs > ints THEN "str"
               ELSE type_of(col[1][i])]

-----------------------------------------------------------------------------
(* The Tabulator (src/tabs.py) *)

\* Accepting()
Accepting == [kind |-> "Accepting", name |-> "", vals |-> {}]

\* Equality(name, matching)
Equality(name, matching) == [kind |-> "Equality", name |-> name, vals |-> {matching}]

\* Membership(name, collection)
Membership(name, collection) ==
    [kind |-> "Membership", name |-> name, vals |-> collection]

\* row[name] of a dictionary row, a sequence of key/value entries.
Get(row, name) == row[CHOOSE i \in 1..Len(row) : row[i].k = name].v

\* Tab.__call__ of the three tabs above.
tab_call(tab, row) ==
    CASE tab.kind = "Accepting" -> TRUE
      [] tab.kind = "Equality" -> \A m \in tab.vals : Get(row, tab.name) = m
      [] tab.kind = "Membership" -> Get(row, tab.name) \in tab.vals

\* The columns argument: None, a list of names or a list of indices.
NoColumns == [kind |-> "none", vals |-> <<>>]

\* Tabulator._assign for a list of names or of indices.
_assign(hdr, columns) ==
    IF columns.kind = "indices"
    THEN [i \in 1..Len(columns.vals) |-> At(hdr.names, columns.vals[i])]
    ELSE columns.vals

\* Tabulator.__init__
Tabulator(hdr, rws, columns) ==
    [header |-> hdr,
     rows |-> IF rws # <<>> THEN rws ELSE <<Accepting>>,
     columns |-> IF columns.vals # <<>> THEN _assign(hdr, columns) ELSE hdr.names]

\* The result of a rejected row: None.
Rejected == [some |-> FALSE, row |-> <<>>]

\* any(tab(row) for tab in self.rows)
any_tabs(tblr, row) == \E i \in 1..Len(tblr.rows) : tab_call(tblr.rows[i], row)

\* all(tab(row) for tab in self.rows)
all_tabs(tblr, row) == \A i \in 1..Len(tblr.rows) : tab_call(tblr.rows[i], row)

\* Tabulator.__call__: the row's entries whose key is a projected column, in
\* the row's order, when every tab holds; None otherwise.
tabulator_call(tblr, row) ==
    IF all_tabs(tblr, row)
    THEN [some |-> TRUE,
          row |-> SelectSeq(row, LAMBDA e : e.k \in Range(tblr.columns))]
    ELSE Rejected

-----------------------------------------------------------------------------
(* The Reader (src/src/tabbed/reading.py; _autostart from src/reader.py) *)

\* The default of read's poll argument.
DefaultPoll == 5

\* Reader._datastart: the first line of the data section.
_datastart(hdr, sn) ==
    LET line == hdr.line
        metalines == metadata(sn, line).lines
    IN IF line # None THEN line + 1
       ELSE IF Truthy(metalines[2]) THEN metalines[2] + 1 ELSE metalines[1]

\* Reader._autostart of src/reader.py, the same computation in the other
\* Reader of the repository.
_autostart(hdr, sn) ==
    IF Truthy(hdr.line) THEN hdr.line + 1
    ELSE IF StringTruthy(metadata(sn, None).string)
         THEN metadata(sn, None).lines[2] + 1
         ELSE 0

\* The indices argument: None, a range or a list of line numbers.
NoIndices == [kind |-> "none", start |-> 0, stop |-> 0, step |-> 1, items |-> <<>>]

range(a, b, st) == [kind |-> "range", start |-> a, stop |-> b, step |-> st, items |-> <<>>]

list(items) == [kind |-> "seq", start |-> 0, stop |-> 0, step |-> 1, items |-> items]

\* bool(indices): a range or a list is true when it is not empty.
IndicesTruthy(ind) ==
    CASE ind.kind = "none" -> FALSE
      [] ind.kind = "range" -> ind.start < ind.stop
      [] ind.kind = "seq" -> ind.items # <<>>

\* line in indices
InIndices(line, ind) ==
    CASE ind.kind = "none" -> FALSE
      [] ind.kind = "range" ->
            /\ ind.start <= line
            /\ line < ind.stop
            /\ (line - ind.start) % ind.step = 0
      [] ind.kind = "seq" -> line \in Range(ind.items)

\* A raw cell as csv hands it over: a str.
StrCell(text) == [t |-> "str", v |-> text]

\* csv.DictReader.__next__ on one split line: the fields keyed by the header
\* names, missing fields filled with None (restval), surplus fields kept
\* under the None key (restkey).
DictRow(names, cells) ==
    [items |-> [i \in 1..Len(names) |->
                    [k |-> names[i],
                     v |-> IF i <= Len(cells) THEN StrCell(cells[i]) ELSE NoneCell]],
     hasrest |-> Len(cells) > Len(names),
     rest |-> SubSeq(cells, Len(names) + 1, Len(cells))]

\* any(dic.values()): some value is a non-empty string or a non-empty list.
any_values(dic) ==
    \/ \E i \in 1..Len(dic.items) : dic.items[i].v \notin {NoneCell, StrCell("")}
    \/ dic.hasrest

\* castings[name](val): the cell converted to the column's type; a string
\* the type cannot consume stays the string it was, a missing field stays
\* None.
cast(tp, cell) ==
    IF cell = NoneCell THEN NoneCell
    ELSE IF tp = "int" /\ is_numeric(cell.v) THEN [t |-> "int", v |-> cell.v]
    ELSE cell

\* The file iterator under csv.DictReader: the next line that is not blank
\* (DictReader skips rows that are []), and the cursor after it.
RECURSIVE DictReaderNext(_, _)
DictReaderNext(f, at) ==
    IF at >= Len(f) THEN [ok |-> FALSE, origin |-> None, pos |-> Len(f)]
    ELSE IF f[at + 1] = <<>> THEN DictReaderNext(f, at + 1)
    ELSE [ok |-> TRUE, origin |-> at, pos |-> at + 1]

\* itertools.islice: rows are consumed until the count reaches next.
RECURSIVE islice_skip(_, _, _, _)
islice_skip(f, at, cnt, next) ==
    IF ~(cnt < next) THEN [ok |-> TRUE, pos |-> at, cnt |-> cnt]
    ELSE LET it == DictReaderNext(f, at)
         IN IF ~it.ok THEN [ok |-> FALSE, pos |-> it.pos, cnt |-> cnt]
            ELSE islice_skip(f, it.pos, cnt + 1, next)

\* itertools.islice.__next__ with the slice (next, stop, step); stop may be
\* None.
islice_next(f, s, stop, step) ==
    LET sk == islice_skip(f, s.pos, s.cnt, s.next)
        it == DictReaderNext(f, sk.pos)
        empty(at, cnt) ==
            [ok |-> FALSE, origin |-> None, pos |-> at, cnt |-> cnt, next |-> s.next]
    IN IF ~sk.ok THEN empty(sk.pos, sk.cnt)
       ELSE IF stop # None /\ sk.cnt >= stop THEN empty(sk.pos, sk.cnt)
       ELSE IF ~it.ok THEN empty(it.pos, sk.cnt)
       ELSE [ok |-> TRUE, origin |-> it.origin, pos |-> it.pos, cnt |-> sk.cnt + 1,
             next |-> IF stop # None /\ s.next + step > stop
                      THEN stop ELSE s.next + step]

\* Reader._log_ragged: is the row ragged (a None key or a None value)?
is_ragged(dic, row) ==
    dic.hasrest \/ \E i \in 1..Len(row) : row[i].v = NoneCell

\* Reader._log_miscast: the columns whose value has not the expected type.
miscast(row, expected) ==
    {row[i].k : i \in {j \in 1..Len(row) : row[j].v.t # expected[j]}}

\* len(fifo) >= chunksize
fifo_full(fifo, chunksize) == Len(fifo) >= chunksize

\* A drain that leaves the last row of the chunk behind.
drain_short(fifo, chunksize) == SubSeq(fifo, 1, chunksize - 1)

\* [fifo.popleft() for _ in range(chunksize)]
drain(fifo, chunksize) == SubSeq(fifo, 1, chunksize)

\* fifo.appendleft(row)
push_left(fifo, entry) == <<entry>> \o fifo

\* fifo.append(row)
push(fifo, entry) == Append(fifo, entry)

\* A tail that is dropped instead of being yielded.
tail_dropped(fifo) == <<>>

\* list(fifo): the tail chunk, the rows still in the FIFO after the loop.
tail(fifo) == fifo

\* The body of the for loop of read, run from where the generator stands to
\* its next yield, to the end of the rows, or to an exception.
RECURSIVE loop(_, _, _)
loop(f, c, s) ==
    LET e == islice_next(f, s, c.stop, c.step)
        line == c.start + s.k
        dic == DictRow(c.names, f[e.origin + 1])
        s1 == [s EXCEPT !.pos = e.pos, !.cnt = e.cnt, !.next = e.next, !.k = s.k + 1]
        row == [i \in 1..Len(dic.items) |->
                    [k |-> dic.items[i].k, v |-> cast(c.types[i], dic.items[i].v)]]
        ragged == is_ragged(dic, row)
        bad == miscast(row, c.types)
        s2 == [s1 EXCEPT
                 !.ragged = IF ragged THEN Append(@, [line |-> line]) ELSE @,
                 !.casting = IF bad # {} THEN Append(@, [line |-> line, columns |-> bad])
                             ELSE @]
        result == tabulator_call(c.tab, row)
        kept == result.some /\ result.row # <<>>
        entry == [origin |-> e.origin, line |-> line, row |-> result.row, full |-> row]
        fifo == IF kept THEN push(s.fifo, entry) ELSE s.fifo
        s3 == [s2 EXCEPT !.trace = Append(@, [origin |-> e.origin, line |-> line,
                                              full |-> row, kept |-> kept])]
    IN IF ~e.ok
       THEN [s EXCEPT !.pos = e.pos, !.cnt = e.cnt, !.res = "tail",
                       !.chunk = tail(s.fifo)]
       ELSE IF line \in c.skips THEN loop(f, c, s1)
       ELSE IF IndicesTruthy(c.indices) /\ ~InIndices(line, c.indices) THEN loop(f, c, s1)
       ELSE IF ~any_values(dic) /\ c.skip_empty THEN loop(f, c, s1)
       ELSE IF dic.hasrest \/ Len(c.types) < Len(c.names)
            THEN [s1 EXCEPT !.res = "raise", !.err = "KeyError"]
       ELSE IF ragged /\ c.raise_ragged
            THEN [s1 EXCEPT !.res = "raise", !.err = "csv.Error"]
       ELSE IF fifo_full(fifo, c.chunksize)
            THEN [s3 EXCEPT !.res = "yield",
                            !.chunk = drain(fifo, c.chunksize),
                            !.fifo = SubSeq(fifo, c.chunksize + 1, Len(fifo))]
       ELSE loop(f, c, [s3 EXCEPT !.fifo = fifo])

\* The locals a pass of read keeps: the slice, the arguments, and what it
\* read from the Reader at its start (self._datastart() is called three times
\* there, with one result).
Context(hdr, tblr, sn, p) ==
    LET datastart == _datastart(hdr, sn)
        given == IF ~Truthy(p.start) THEN datastart ELSE p.start
        ind == p.indices
    IN [start |-> CASE IndicesTruthy(ind) /\ ind.kind = "range" -> ind.start
                    [] IndicesTruthy(ind) /\ ind.kind = "seq" -> ind.items[1]
                    [] OTHER -> given,
        stop |-> CASE IndicesTruthy(ind) /\ ind.kind = "range" -> ind.stop
                   [] IndicesTruthy(ind) /\ ind.kind = "seq" -> Last(ind.items)
                   [] OTHER -> None,
        step |-> IF IndicesTruthy(ind) /\ ind.kind = "range" THEN ind.step ELSE 1,
        skips |-> p.skips,
        indices |-> ind,
        chunksize |-> p.chunksize,
        skip_empty |-> p.skip_empty,
        raise_ragged |-> p.raise_ragged,
        datastart |-> datastart,
        names |-> hdr.names,
        types |-> types(sn, p.poll),
        tab |-> tblr]

\* The state of a pass that has read nothing yet, the cursor at line at.
Fresh(at) ==
    [pos |-> at, cnt |-> 0, next |-> 0, k |-> 0, fifo |-> <<>>,
     casting |-> <<>>, ragged |-> <<>>, trace |-> <<>>,
     res |-> "run", err |-> "", chunk |-> <<>>]

\* read up to its first yield: the error logs are emptied, the start is
\* checked against the data section's, the cursor moves on by the data
\* section's start (StopIteration at the end of the file, which a generator
\* raises as RuntimeError), then the loop runs.
startup(f, at, c) ==
    IF c.start < c.datastart
    THEN [Fresh(at) EXCEPT !.res = "raise", !.err = "ValueError"]
    ELSE IF at + c.datastart > Len(f)
    THEN [Fresh(Len(f)) EXCEPT !.res = "raise", !.err = "RuntimeError"]
    ELSE loop(f, c, [Fresh(at + c.datastart) EXCEPT !.next = c.start - c.datastart])

\* Tabulator._from_keyword for a cell value (an Equality tab) and for a
\* sequence of cell values (a Membership tab).
_from_keyword(name, value) ==
    IF value.kind = "cell" THEN Equality(name, value.cell)
    ELSE Membership(name, value.cells)

\* Tabulator.from_keywords
from_keywords(hdr, columns, kwargs) ==
    Tabulator(hdr,
              [i \in 1..Len(kwargs) |-> _from_keyword(kwargs[i].name, kwargs[i].value)],
              columns)

-----------------------------------------------------------------------------
(* The calls a caller makes *)

IntCell(text) == [t |-> "int", v |-> text]

\* The arguments of tab(): no tab, one tab, one tab and the second column
\* by index, two tabs on two columns, the second column before the first.
TabCalls(hdr) ==
    LET one == [name |-> hdr.names[1], value |-> [kind |-> "cell", cell |-> IntCell("1")]]
        two == [name |-> hdr.names[2],
                value |-> [kind |-> "seq",
                           cells |-> {IntCell("2"), IntCell("3"), IntCell("4")}]]
    IN IF Len(hdr.names) < 2 THEN {}
       ELSE
       { [columns |-> NoColumns, kwargs |-> <<>>],
         [columns |-> NoColumns, kwargs |-> <<one>>],
         [columns |-> [kind |-> "indices", vals |-> <<1>>], kwargs |-> <<one>>],
         [columns |-> NoColumns, kwargs |-> <<one, two>>],
         [columns |-> [kind |-> "indices", vals |-> <<1, 0>>], kwargs |-> <<>>] }

\* The indices arguments of read().
IndicesSet ==
    {range(2, 2, 1), range(2, 6, 1), range(0, 4, 1), range(2, 7, 2),
     list(<<2, 4>>), list(<<1, 3>>)}

\* read(start, skips, indices, chunksize, skip_empty, poll, raise_ragged)
Params(start, skips, indices, chunksize, skip_empty, raise_ragged) ==
    [start |-> start, skips |-> skips, indices |-> indices, chunksize |-> chunksize,
     skip_empty |-> skip_empty, poll |-> DefaultPoll, raise_ragged |-> raise_ragged]

\* The arguments of read(): a start, skips, raise_ragged, indices, or
\* skip_empty off, each with every chunksize.
ParamSet ==
    {Params(st, {}, NoIndices, k, TRUE, FALSE) : st \in {None} \cup 0..MaxStart, k \in 1..MaxChunk}
    \cup {Params(None, {4}, NoIndices, k, TRUE, FALSE) : k \in 1..MaxChunk}
    \cup {Params(None, {}, NoIndices, k, TRUE, TRUE) : k \in 1..MaxChunk}
    \cup {Params(None, {}, ind, k, TRUE, FALSE) : ind \in IndicesSet, k \in 1..MaxChunk}
    \cup {Params(None, {}, NoIndices, k, FALSE, FALSE) : k \in 1..MaxChunk}

\* No generator.  Of a generator, after is how the pass before its own ended.
NoGen ==
    [pc |-> "idle", err |-> "", p |-> Params(None, {}, NoIndices, 1, TRUE, FALSE),
     c |-> <<>>, cnt |-> 0, next |-> 0, k |-> 0, fifo |-> <<>>, after |-> "idle"]

NoPrev == [some |-> FALSE, p |-> NoGen.p, out |-> <<>>]

\* The value of an assignment: a line number, a list of names, a dict of
\* keyword arguments, a float, or the Reader's own header.
IntValue(n) == [kind |-> "int", int |-> n, names |-> <<>>]
ListValue(names) == [kind |-> "list", int |-> 0, names |-> names]
DictValue == [kind |-> "dict", int |-> 0, names |-> <<>>]
FloatValue == [kind |-> "float", int |-> 0, names |-> <<>>]
HeaderValue == [kind |-> "Header", int |-> 0, names |-> <<>>]

\* No assignment yet.  Of an assignment, target is the attribute assigned to,
\* raised the exception it ended with, was the Reader before it, and origin
\* says where the Reader's header comes from: the sniffer or the caller.
NoAssigned ==
    [target |-> "none", value |-> IntValue(0), raised |-> "",
     was |-> <<>>, origin |-> "sniffer"]

\* No call yet.
NoProbe == [call |-> "none"]

\* No Reader of src/reader.py is constructed, and Sniffer.__setattr__ is
\* object's.
NoReader == [made |-> FALSE]
NoReaders == [r \in {"A", "B"} |-> NoReader]
NoHook == "none"

Init ==
    /\ file \in Files
    /\ sniffer = SnifferInit(file, 0, DefaultAmount, {})
    /\ header = sniffer_header(sniffer)
    /\ tabulator = Tabulator(header, <<>>, NoColumns)
    /\ errors = [casting |-> <<>>, ragged |-> <<>>]
    /\ pos = 0
    /\ gen = NoGen
    /\ out = <<>>
    /\ trace = <<>>
    /\ prev = NoPrev
    /\ assigned = NoAssigned
    /\ probe = NoProbe
    /\ readers = NoReaders
    /\ hook = NoHook

\* The chunks as the caller gets them: lists of row dictionaries.
Chunks(o) == [i \in 1..Len(o) |-> [j \in 1..Len(o[i]) |-> o[i][j].row]]

\* No generator is suspended: the caller is between two passes.
Between == gen.pc \in {"idle", "done", "failed", "dropped"}

\* reader.tab(columns, **tabs)
Tab(columns, kwargs) ==
    /\ Between
    /\ tabulator' = from_keywords(header, columns, kwargs)
    /\ tabulator' # tabulator
    /\ prev' = NoPrev
    /\ out' = <<>>
    /\ trace' = <<>>
    /\ assigned' = [NoAssigned EXCEPT !.origin = assigned.origin]
    /\ UNCHANGED <<file, pos, sniffer, header, errors, gen, apart>>

\* The generator after the body ran to s: suspended at a yield, or ended by
\* an exception.
Suspended(g, c, s) ==
    IF s.res = "raise"
    THEN [NoGen EXCEPT !.pc = "failed", !.err = s.err, !.p = g.p]
    ELSE [g EXCEPT !.pc = IF s.res = "yield" THEN "suspended" ELSE "tail",
                   !.c = c, !.cnt = s.cnt, !.next = s.next, !.k = s.k,
                   !.fifo = s.fifo]

\* What a next() changes: g is the generator, c its locals, s the state its
\* body ran to, o the chunks it had yielded before.
Ran(g, c, s, o) ==
    /\ gen' = Suspended(g, c, s)
    /\ pos' = s.pos
    /\ errors' = [casting |-> s.casting, ragged |-> s.ragged]
    /\ out' = IF s.res = "raise" THEN o ELSE Append(o, s.chunk)
    /\ trace' = s.trace

\* An error log that is not emptied.
reset_skipped(log) == log

\* self.errors.casting = [] and self.errors.ragged = [] at the top of read.
reset(log) == <<>>

\* The body's state s with its log entries appended to the logs as the top of
\* read leaves them.
Begun(s) ==
    [s EXCEPT !.casting = reset(errors.casting) \o @,
              !.ragged = reset(errors.ragged) \o @]

\* The first next() of a generator with the locals c.
First(g, c) == Ran(g, c, Begun(startup(file, pos, c)), <<>>)

\* How the pass before ended.
Ended(g) == IF g.pc = "failed" THEN g.err ELSE g.pc

\* reader.read(...) and the first next() of the generator it returns: the
\* call itself runs none of the body, the first next() runs it from its top.
Read(p) ==
    /\ Between
    /\ prev' = IF gen.pc = "done" /\ prev.p = p THEN prev ELSE NoPrev
    /\ First([NoGen EXCEPT !.p = p, !.after = Ended(gen)],
             Context(header, tabulator, sniffer, p))
    /\ UNCHANGED <<file, sniffer, header, tabulator, assigned, apart>>

\* next(generator) after a chunk was yielded inside the loop.
NextChunk ==
    /\ gen.pc = "suspended"
    /\ Ran(gen, gen.c,
           loop(file, gen.c,
                [Fresh(pos) EXCEPT !.cnt = gen.cnt, !.next = gen.next,
                                   !.k = gen.k, !.fifo = gen.fifo,
                                   !.casting = errors.casting,
                                   !.ragged = errors.ragged, !.trace = trace]),
           out)
    /\ UNCHANGED <<file, sniffer, header, tabulator, prev, assigned, apart>>

\* next(generator) after the tail was yielded: the stream is rewound and the
\* generator is exhausted. The chunks of the pass are remembered for the pass
\* that follows.
NextEnd ==
    /\ gen.pc = "tail"
    /\ pos' = 0
    /\ gen' = [NoGen EXCEPT !.pc = "done"]
    /\ prev' = [some |-> TRUE, p |-> gen.p, out |-> Chunks(out)]
    /\ out' = <<>>
    /\ trace' = <<>>
    /\ UNCHANGED <<file, sniffer, header, tabulator, errors, assigned, apart>>

\* The caller drops a generator it has pulled from: nothing after the yield
\* it is suspended at runs.
Drop ==
    /\ gen.pc \in {"suspended", "tail"}
    /\ gen' = [NoGen EXCEPT !.pc = "dropped"]
    /\ out' = <<>>
    /\ trace' = <<>>
    /\ UNCHANGED <<file, pos, sniffer, header, tabulator, errors, prev, assigned, apart>>

Next ==
    \/ \E t \in TabCalls(header) : Tab(t.columns, t.kwargs)
    \/ \E p \in ParamSet : Read(p)
    \/ NextChunk
    \/ NextEnd
    \/ Drop

Spec == Init /\ [][Next]_vars

-----------------------------------------------------------------------------
(* Assignments to the header and to the sniffer *)

\* The largest line number a caller assigns to the header.
MaxLine == 2

\* The values a caller assigns to the header.
HeaderValues ==
    {IntValue(n) : n \in 0..MaxLine}
    \cup {ListValue(<<"x", "y">>), ListValue(<<"x", "y", "z">>),
          DictValue, FloatValue, HeaderValue}

\* The values a caller assigns to the sniffer's amount and skips.
Amounts == {1, 3, DefaultAmount}
Skips == {{}, {1}}

\* The body of the header setter up to "# set header": the header it builds
\* from value, or the error it raises.
header_set(f, sn, value) ==
    LET expected == Len(Last(rows(sn)))
        sniff == SnifferInit(f, value.int, 1, {})
        raise == [err |-> "ValueError", header |-> Header(None, <<>>)]
        result(h) == [err |-> "", header |-> h]
    IN CASE value.kind = "int" ->
                IF Len(rows(sniff)[1]) # expected THEN raise
                ELSE result(Header(value.int, rows(sniff)[1]))
         [] value.kind = "list" ->
                IF Len(value.names) # expected THEN raise
                ELSE result(Header(None, value.names))
         [] value.kind = "dict" -> result(sniffer_header(sn))
         [] OTHER -> raise

\* A header setter that leaves the tabulator as it was.
keep_tabulator(hdr, previous) == previous

\* The end of the header setter: tblr = Tabulator(self.header, tabs=None,
\* columns=None) replaces the tabulator.
reset_tabulator(hdr, previous) == Tabulator(hdr, <<>>, NoColumns)

\* The Reader before an assignment.
Was == [header |-> header, tabulator |-> tabulator, origin |-> assigned.origin]

\* reader.header = value
HeaderAssign(value) ==
    /\ Between
    /\ LET r == header_set(file, sniffer, value)
       IN IF r.err # ""
          THEN /\ assigned' = [target |-> "header", value |-> value, raised |-> r.err,
                               was |-> Was, origin |-> assigned.origin]
               /\ UNCHANGED <<header, tabulator>>
          ELSE /\ header' = r.header
               /\ tabulator' = reset_tabulator(r.header, tabulator)
               /\ assigned' = [target |-> "header", value |-> value, raised |-> "",
                               was |-> Was,
                               origin |-> IF value.kind = "dict" THEN "sniffer"
                                          ELSE "caller"]
    /\ pos' = IF value.kind = "int" THEN 0 ELSE pos
    /\ prev' = NoPrev
    /\ out' = <<>>
    /\ trace' = <<>>
    /\ UNCHANGED <<file, sniffer, errors, gen, apart>>

\* A sniffer property that sniffs the header whatever its line is.
sniffer_get_always(hdr, tblr, sn) ==
    [header |-> sniffer_header(sn),
     tabulator |-> Tabulator(sniffer_header(sn), <<>>, NoColumns)]

\* Reader.sniffer, the property: a header with a line is sniffed again and
\* the tabulator is replaced, before the sniffer is handed out.
sniffer_get(hdr, tblr, sn) ==
    IF hdr.line # None
    THEN [header |-> sniffer_header(sn),
          tabulator |-> Tabulator(sniffer_header(sn), <<>>, NoColumns)]
    ELSE [header |-> hdr, tabulator |-> tblr]

\* The setters of Sniffer.start, Sniffer.amount and Sniffer.skips.
set_start(f, sn, value) ==
    LET _start == Min(line_count(f) - 1, value)
    IN [sn EXCEPT !.start = _start,
                  !.sample = _resample(f, _start, sn.amount, sn.skips)]

set_amount(f, sn, value) ==
    LET _amount == Min(line_count(f), value)
    IN [sn EXCEPT !.amount = _amount,
                  !.sample = _resample(f, sn.start, _amount, sn.skips)]

set_skips(f, sn, other) ==
    [sn EXCEPT !.skips = other, !.sample = _resample(f, sn.start, sn.amount, other)]

\* reader.sniffer.<target> = ...: the property runs, then the setter of the
\* sniffer it returned, which leaves the stream at offset 0.
SnifferAssign(target, sn) ==
    /\ Between
    /\ header' = sniffer_get(header, tabulator, sniffer).header
    /\ tabulator' = sniffer_get(header, tabulator, sniffer).tabulator
    /\ sniffer' = sn
    /\ assigned' = [target |-> target, value |-> IntValue(0), raised |-> "",
                    was |-> Was,
                    origin |-> IF header.line # None THEN "sniffer"
                               ELSE assigned.origin]
    /\ pos' = 0
    /\ prev' = NoPrev
    /\ out' = <<>>
    /\ trace' = <<>>
    /\ UNCHANGED <<file, errors, gen, apart>>

\* reader.sniffer.start = value
StartAssign(value) == SnifferAssign("start", set_start(file, sniffer, value))

\* reader.sniffer.amount = value
AmountAssign(value) == SnifferAssign("amount", set_amount(file, sniffer, value))

\* reader.sniffer.skips = other
SkipsAssign(other) == SnifferAssign("skips", set_skips(file, sniffer, other))

\* The calls that configure a Reader between its passes.
Assign ==
    \/ \E t \in TabCalls(header) : Tab(t.columns, t.kwargs)
    \/ \E v \in HeaderValues : HeaderAssign(v)
    \/ \E v \in 0..MaxStart : StartAssign(v)
    \/ \E v \in Amounts : AmountAssign(v)
    \/ \E o \in Skips : SkipsAssign(o)

Configure == Init /\ [][Assign]_vars

-----------------------------------------------------------------------------
(* Calls on a Sniffer of its own *)

\* The Reader of src/src/tabbed/reading.py.
reading ==
    <<file, pos, sniffer, header, tabulator, errors, gen, out, trace, prev, assigned>>

\* All numeric; line 1 shares no cell with the lines below it.
SampleDisjoint ==
    << <<"1", "2">>,
       <<"7", "8">>,
       <<"1", "3">>,
       <<"1", "5">> >>

\* Text only; line 1 is shorter than the last line and shares no cell with
\* the lines below it.
SampleShort ==
    << <<"t", "u">>,
       <<"m">>,
       <<"a", "b">>,
       <<"a", "c">> >>

\* Text only; line 1 has an empty cell and shares no cell with the lines
\* below it.
SampleEmptyCell ==
    << <<"t", "u">>,
       <<"", "h">>,
       <<"a", "b">>,
       <<"a", "c">> >>

\* Text only; line 0 is shorter than the last line and shares no cell with
\* the lines below it, which share a cell with each other.
SampleShort0 ==
    << <<"m">>,
       <<"a", "b">>,
       <<"a", "c">> >>

\* Text only; line 1 shares no cell with the lines below it and has the
\* length of the last line.
SampleText ==
    << <<"t">>,
       <<"h", "k">>,
       <<"a", "b">>,
       <<"a", "c">> >>

\* The files a Sniffer of its own samples.
Samples ==
    Files \cup {SampleDisjoint, SampleShort, SampleEmptyCell, SampleShort0, SampleText}

\* A clevercsv SimpleDialect with the delimiter of the files, and None.
Dialect == [some |-> TRUE, delimiter |-> ","]
NoDialect == [some |-> FALSE, delimiter |-> ""]

\* The delimiter argument: None or a str.
NoDelimiter == [some |-> FALSE, sep |-> ""]
Comma == [some |-> TRUE, sep |-> ","]
Delimiters == {NoDelimiter, Comma}

\* Sniffer.sniff: found is what clevercsv's Sniffer().sniff returned, a
\* dialect or None; of None, the warning is issued and result.escapechar is
\* read off None.
sniff(found) ==
    IF found.some
    THEN [raised |-> "", warned |-> FALSE, dialect |-> found]
    ELSE [raised |-> "AttributeError", warned |-> TRUE, dialect |-> NoDialect]

\* Sniffer.rows(delimiter) of a sniffer with the dialect: the exception it
\* raises, if any.
rows_raises(dialect, delimiter) ==
    IF ~delimiter.some /\ ~dialect.some THEN "TypeError" ELSE ""

\* Sniffer.header(delimiter) of a sniffer with the dialect: the exception it
\* raises, if any.  A synthesised header calls self.rows() with no delimiter.
header_raises(sn, dialect, delimiter) ==
    IF ~delimiter.some /\ ~dialect.some THEN "TypeError"
    ELSE IF sniffer_header(sn).line = None THEN rows_raises(dialect, NoDelimiter)
    ELSE ""

\* Sniffer.metadata(header, delimiter) of a sniffer with the dialect: the
\* exception it raises, if any.
metadata_raises(dialect, delimiter) ==
    IF ~delimiter.some /\ ~dialect.some THEN "TypeError" ELSE ""

\* Sniffer(infile): the sample is taken and sniffed.
SnifferNew(f, found) ==
    /\ probe' = [call |-> "Sniffer", found |-> found,
                 raised |-> sniff(found).raised, warned |-> sniff(found).warned,
                 dialect |-> sniff(found).dialect]
    /\ UNCHANGED <<reading, readers, hook>>

\* sniffer.rows(delimiter) of a sniffer with the sample sn and the dialect.
RowsCall(sn, dialect, delimiter) ==
    /\ probe' = [call |-> "rows", sniffer |-> sn, dialect |-> dialect,
                 delimiter |-> delimiter,
                 raised |-> rows_raises(dialect, delimiter),
                 result |-> IF rows_raises(dialect, delimiter) = "" THEN rows(sn)
                            ELSE <<>>]
    /\ UNCHANGED <<reading, readers, hook>>

\* sniffer.header(delimiter)
HeaderCall(sn, dialect, delimiter) ==
    /\ probe' = [call |-> "header", sniffer |-> sn, dialect |-> dialect,
                 delimiter |-> delimiter,
                 raised |-> header_raises(sn, dialect, delimiter),
                 result |-> sniffer_header(sn)]
    /\ UNCHANGED <<reading, readers, hook>>

\* sniffer.metadata(None, delimiter)
MetadataCall(sn, dialect, delimiter) ==
    /\ probe' = [call |-> "metadata", sniffer |-> sn, dialect |-> dialect,
                 delimiter |-> delimiter,
                 raised |-> metadata_raises(dialect, delimiter),
                 result |-> metadata(sn, None)]
    /\ UNCHANGED <<reading, readers, hook>>

\* The sniffers of the samples, from line 0 and from line 1.
Sniffers == {SnifferInit(f, st, DefaultAmount, {}) : f \in Samples, st \in 0..1}

\* The calls on a Sniffer.
SnifferCalls ==
    \/ \E f \in Samples, found \in {Dialect, NoDialect} : SnifferNew(f, found)
    \/ \E sn \in Sniffers, d \in {Dialect, NoDialect}, sep \in Delimiters :
           RowsCall(sn, d, sep)
    \/ \E sn \in Sniffers, d \in {Dialect, NoDialect}, sep \in Delimiters :
           HeaderCall(sn, d, sep)
    \/ \E sn \in Sniffers, d \in {Dialect, NoDialect}, sep \in Delimiters :
           MetadataCall(sn, d, sep)

Sniffing == Init /\ [][SnifferCalls]_vars

-----------------------------------------------------------------------------
(* Calls on the tabs and on a Tabulator of their own (src/tabs.py) *)

\* int(astring) of a numeric string of the model.
int(astring) ==
    CHOOSE n \in 1..9 : <<"1", "2", "3", "4", "5", "6", "7", "8", "9">>[n] = astring

\* celltyping.convert: an int for a numeric string, the string itself
\* otherwise.
convert(astring) == IF is_numeric(astring) THEN IntCell(astring) ELSE StrCell(astring)

\* The texts that are compared, in the order of Python's str comparison.
Texts == <<"5 and < 9", "5 or > 9", "a", "b", "c">>

\* A comparison string as its tokens; the string is the tokens joined by
\* single spaces.
RECURSIVE join(_)
join(tokens) ==
    IF Len(tokens) = 1 THEN tokens[1]
    ELSE tokens[1] \o " " \o join(Tail(tokens))

\* re.split(logic_string, comparison): the pieces between the occurrences of
\* one logical.
RECURSIVE split(_, _)
split(tokens, logic_string) ==
    IF \A i \in 1..Len(tokens) : tokens[i] # logic_string THEN <<tokens>>
    ELSE LET i == Index(tokens, logic_string) + 1
         IN <<SubSeq(tokens, 1, i - 1)>>
                \o split(SubSeq(tokens, i + 1, Len(tokens)), logic_string)

\* Comparison.comparators applied to two cells: a boolean, or TypeError for
\* an ordering between an int and a str; == and != between an int and a str
\* are False and True.
compare(comparator, cell, value) ==
    LET same == cell.t = value.t
        a == IF cell.t = "int" THEN int(cell.v) ELSE Index(Texts, cell.v)
        b == IF value.t = "int" THEN int(value.v) ELSE Index(Texts, value.v)
    IN CASE comparator = "==" -> [raised |-> "", value |-> same /\ a = b]
         [] comparator = "!=" -> [raised |-> "", value |-> ~(same /\ a = b)]
         [] ~same -> [raised |-> "TypeError", value |-> FALSE]
         [] comparator = "<" -> [raised |-> "", value |-> a < b]
         [] comparator = ">" -> [raised |-> "", value |-> a > b]
         [] comparator = "<=" -> [raised |-> "", value |-> a <= b]
         [] comparator = ">=" -> [raised |-> "", value |-> a >= b]

\* Comparison(name, comparison, permissive)
Comparison(name, comparison, permissive) ==
    [kind |-> "Comparison", name |-> name, comparison |-> comparison,
     permissive |-> permissive]

\* Comparison._single: the comparator is what stands before the first word
\* boundary, the value is the rest, converted.
_single(tab, row, comparison) ==
    LET comparator == comparison[1]
        value == convert(join(Tail(comparison)))
        done == compare(comparator, Get(row, tab.name), value)
    IN IF done.raised = "TypeError" THEN tab.permissive ELSE done.value

\* Comparison.__call__
comparison_call(tab, row) ==
    LET found == {i \in 1..Len(tab.comparison) : tab.comparison[i] \in {"and", "or"}}
    IN IF found # {}
       THEN LET logic_string == tab.comparison[CHOOSE i \in found : \A j \in found : i <= j]
                comparisons == split(tab.comparison, logic_string)
                first == _single(tab, row, comparisons[1])
                second == _single(tab, row, comparisons[2])
            IN IF Len(comparisons) > 2
               THEN [raised |-> "ValueError", value |-> FALSE]
               ELSE [raised |-> "",
                     value |-> IF logic_string = "and" THEN first /\ second
                               ELSE first \/ second]
       ELSE [raised |-> "", value |-> _single(tab, row, tab.comparison)]

\* A compiled pattern, by the texts in which re.search finds a match.
Pattern(found) == [kind |-> "pattern", found |-> found]

\* Regex(name, pattern)
Regex(name, pattern) == [kind |-> "Regex", name |-> name, pattern |-> pattern]

\* Regex.__call__: re.search on a cell that is not a str raises TypeError.
regex_call(tab, row) ==
    LET cell == Get(row, tab.name)
    IN IF cell.t # "str" THEN [raised |-> "TypeError", value |-> FALSE]
       ELSE [raised |-> "", value |-> cell.v \in tab.pattern.found]

\* What Tabulator._assign raises: the assertion that narrows the value to a
\* Sequence fails for a pattern, and with assertions compiled out value[0]
\* of a pattern raises TypeError; an index or a name the header does not have
\* raises IndexError.
_assign_raises(hdr, columns, optimized) ==
    CASE columns.kind = "pattern" -> IF optimized THEN "TypeError" ELSE "AssertionError"
      [] columns.kind = "indices" ->
            IF \E i \in 1..Len(columns.vals) : columns.vals[i] >= Len(hdr.names)
            THEN "IndexError" ELSE ""
      [] OTHER -> IF Range(columns.vals) \subseteq Range(hdr.names) THEN "" ELSE "IndexError"

\* The header of the calls on a Tabulator.
Fruits == Header(2, <<"oranges", "pears", "peaches", "plums">>)

\* The columns arguments of the calls on a Tabulator.
ColumnsSet ==
    {Pattern(found) : found \in {{"pears", "peaches"}, {"plums"}, {"oranges", "plums"}}}
    \cup {[kind |-> "indices", vals |-> v] : v \in {<<0, 2>>, <<2, 0>>, <<3>>, <<4>>}}
    \cup {[kind |-> "names", vals |-> v] : v \in {<<"pears">>, <<"plums", "oranges">>, <<"figs">>}}

\* The rows the tabs are applied to: an int cell and a str cell.
TabRows ==
    {<<[k |-> "count", v |-> IntCell(n)], [k |-> "group", v |-> StrCell(s)]>> :
        n \in {"1", "3", "7"}, s \in {"a", "c"}}

\* The comparison strings: every comparator with an int and with a str, two
\* comparisons, and three comparisons joined by one logical or by both.
Comparisons ==
    {<<c, v>> : c \in {"<", ">", "<=", ">=", "==", "!="}, v \in {"3", "b"}}
    \cup {<<">", "1", "and", "<", "5">>, <<"<", "3", "or", ">", "5">>,
          <<">", "1", "and", "<", "5", "and", "<", "9">>,
          <<">", "1", "or", "<", "5", "or", ">", "9">>,
          <<">", "1", "and", "<", "5", "or", ">", "9">>,
          <<">", "1", "or", "<", "5", "and", "<", "9">>}

\* comparison(row) of a Comparison tab.
ComparisonCall(tab, row) ==
    /\ probe' = [call |-> "Comparison", tab |-> tab, row |-> row,
                 raised |-> comparison_call(tab, row).raised,
                 value |-> comparison_call(tab, row).value]
    /\ UNCHANGED <<reading, readers, hook>>

\* regex(row) of a Regex tab.
RegexCall(tab, row) ==
    /\ probe' = [call |-> "Regex", tab |-> tab, row |-> row,
                 raised |-> regex_call(tab, row).raised,
                 value |-> regex_call(tab, row).value]
    /\ UNCHANGED <<reading, readers, hook>>

\* Tabulator(header, columns=columns)
TabulatorNew(hdr, columns, optimized) ==
    /\ probe' = [call |-> "Tabulator", header |-> hdr, columns |-> columns,
                 raised |-> _assign_raises(hdr, columns, optimized),
                 result |-> IF _assign_raises(hdr, columns, optimized) = ""
                            THEN Tabulator(hdr, <<>>, columns).columns
                            ELSE <<>>]
    /\ UNCHANGED <<reading, readers, hook>>

\* The calls on the tabs and on a Tabulator.
TabbingCalls ==
    \/ \E name \in {"count", "group"}, c \in Comparisons, permissive \in BOOLEAN,
          row \in TabRows :
           ComparisonCall(Comparison(name, c, permissive), row)
    \/ \E name \in {"count", "group"}, found \in {{"a"}, {"a", "c"}}, row \in TabRows :
           RegexCall(Regex(name, Pattern(found)), row)
    \/ \E columns \in ColumnsSet, optimized \in BOOLEAN :
           TabulatorNew(Fruits, columns, optimized)

Tabbing == Init /\ [][TabbingCalls]_vars

-----------------------------------------------------------------------------
(* Two Readers of src/reader.py *)

\* The files of the two Readers: A reads the file, B another one.
Infile(r) ==
    IF r = "A" THEN file
    ELSE IF file = FileMetaHeader THEN FileHeader0 ELSE FileMetaHeader

\* What Reader._header holds: the bound method header of the sniffer of a
\* Reader, the bound method header of the one-line Sniffer a header setter
\* made (that Sniffer is never changed again, held is what it returns), or
\* a Header.
Bound(r) == [kind |-> "method", of |-> r, held |-> Header(None, <<>>)]
BoundTemp(hdr) == [kind |-> "method", of |-> "temp", held |-> hdr]
Value(hdr) == [kind |-> "value", of |-> "", held |-> hdr]

\* Reader.header, the property: a method is called, a Header is returned.
reader_header(rs, r) ==
    LET item == rs[r]._header
    IN IF item.kind = "method" /\ item.of \in {"A", "B"}
       THEN sniffer_header(rs[item.of].sniffer)
       ELSE item.held

\* on_change of Reader._set_sniff, in place of Sniffer.__setattr__ for every
\* Sniffer: after the attribute is set, the Reader that patched the class
\* last takes the header method of the sniffer that was changed.
on_change(rs, patched, item) ==
    IF patched = NoHook THEN rs ELSE [rs EXCEPT ![patched]._header = item]

\* Reader.__init__ of src/reader.py: the Sniffer is constructed (its
\* attributes are set under the current __setattr__), _header is its header
\* method, Sniffer.__setattr__ is patched, the tabulator is built.
ReaderInit(rs, patched, r, f) ==
    LET sn == SnifferInit(f, 0, DefaultAmount, {})
    IN [on_change(rs, patched, Bound(r)) EXCEPT
           ![r] = [made |-> TRUE, sniffer |-> sn, _header |-> Bound(r),
                   tabulator |-> Tabulator(sniffer_header(sn), <<>>, NoColumns),
                   errors |-> [casting |-> <<>>, ragged |-> <<>>]]]

\* reader.sniffer.<attribute> = ...: sn is the sniffer after its setter.
sniffer_setattr(rs, patched, r, sn) ==
    on_change([rs EXCEPT ![r].sniffer = sn], patched, Bound(r))

\* The header setter of src/reader.py for an int: a one-line Sniffer is
\* constructed, its row becomes the header, the tabulator is rebuilt.
reader_header_set(rs, patched, r, f, value) ==
    LET sniffer1 == SnifferInit(f, value, 1, {})
        hooked ==    on_change(rs, patched, BoundTemp(sniffer_header(sniffer1)))
        set ==       [hooked EXCEPT ![r]._header = Value(Header(value, rows(sniffer1)[1]))]
    IN [set EXCEPT ![r].tabulator = Tabulator(reader_header(set, r), <<>>, NoColumns)]

\* The call on a Reader of the pair.
Called(r, op) == [call |-> "Reader", reader |-> r, op |-> op]

\* Reader(infile)
ReaderNew(r) ==
    /\ ~readers[r].made
    /\ readers' = ReaderInit(readers, hook, r, Infile(r))
    /\ hook' = r
    /\ probe' = Called(r, "Reader")
    /\ UNCHANGED reading

\* reader.sniffer.start = value
ReaderStart(r, value) ==
    /\ readers[r].made
    /\ readers' = sniffer_setattr(readers, hook, r,
                                  set_start(Infile(r), readers[r].sniffer, value))
    /\ probe' = Called(r, "start")
    /\ UNCHANGED <<reading, hook>>

\* reader.sniffer.amount = value
ReaderAmount(r, value) ==
    /\ readers[r].made
    /\ readers' = sniffer_setattr(readers, hook, r,
                                  set_amount(Infile(r), readers[r].sniffer, value))
    /\ probe' = Called(r, "amount")
    /\ UNCHANGED <<reading, hook>>

\* reader.sniffer.skips = other
ReaderSkips(r, other) ==
    /\ readers[r].made
    /\ readers' = sniffer_setattr(readers, hook, r,
                                  set_skips(Infile(r), readers[r].sniffer, other))
    /\ probe' = Called(r, "skips")
    /\ UNCHANGED <<reading, hook>>

\* reader.header = value, a line number of the file
ReaderHeader(r, value) ==
    /\ readers[r].made
    /\ rows(SnifferInit(Infile(r), value, 1, {})) # <<>>
    /\ readers' = reader_header_set(readers, hook, r, Infile(r), value)
    /\ probe' = Called(r, "header")
    /\ UNCHANGED <<reading, hook>>

\* The calls on the two Readers.
PairCalls ==
    \/ \E r \in {"A", "B"} : ReaderNew(r)
    \/ \E r \in {"A", "B"}, v \in 0..1 : ReaderStart(r, v)
    \/ \E r \in {"A", "B"} : ReaderAmount(r, 3)
    \/ \E r \in {"A", "B"} : ReaderSkips(r, {1})
    \/ \E r \in {"A", "B"}, v \in 0..1 : ReaderHeader(r, v)

Pair == Init /\ [][PairCalls]_vars

-----------------------------------------------------------------------------
(* Properties of a pass *)

\* The rows of all the chunks, one after the other.
RECURSIVE Flatten(_)
Flatten(chunks) ==
    IF chunks = <<>> THEN <<>> ELSE Head(chunks) \o Flatten(Tail(chunks))

\* A generator exists and has run: it is suspended at a yield.
InPass == gen.pc \in {"suspended", "tail"}

\* C1: every chunk read has yielded, except possibly the last, has exactly
\* chunksize rows, and the last has between 0 and chunksize rows.
ChunkShape ==
    \A i \in 1..Len(out) :
        /\ Len(out[i]) <= gen.p.chunksize
        /\ i < Len(out) => Len(out[i]) = gen.p.chunksize

\* A pass with a chunksize of two or more has yielded full chunks and, as its
\* last, a chunk that is neither full nor empty.
ChunkShapeWitness ==
    /\ gen.pc = "tail"
    /\ gen.p.chunksize >= 2
    /\ Len(out) >= 2
    /\ Len(out[Len(out)]) \in 1..(gen.p.chunksize - 1)

\* C2: over the concatenation of the chunks read has yielded, the file line
\* numbers the rows come from are strictly increasing.
FileOrder ==
    LET emitted == Flatten(out)
    IN \A i, j \in 1..Len(emitted) : i < j => emitted[i].origin < emitted[j].origin

\* A pass has yielded two chunks of two rows and more.
FileOrderWitness ==
    /\ gen.pc = "tail"
    /\ Len(out) >= 2
    /\ \A i \in 1..(Len(out) - 1) : Len(out[i]) >= 2
    /\ Len(Flatten(out)) >= 3

\* C3: no row read has yielded comes from a file line that is in skips.
SkipCompleteness ==
    \A i \in 1..Len(Flatten(out)) : Flatten(out)[i].origin \notin gen.p.skips

\* The row of file line l as read decodes it.
Decoded(l) ==
    LET dic == DictRow(header.names, file[l + 1])
        tps == types(sniffer, gen.p.poll)
    IN [i \in 1..Len(dic.items) |->
            [k |-> dic.items[i].k, v |-> cast(tps[i], dic.items[i].v)]]

\* File line l is a line of the data section that is not skipped, not empty
\* and accepted by the tabulator.
Qualifies(l) ==
    /\ l >= _datastart(header, sniffer)
    /\ l < Len(file)
    /\ file[l + 1] # <<>>
    /\ l \notin gen.p.skips
    /\ gen.p.skip_empty => any_values(DictRow(header.names, file[l + 1]))
    /\ \A i \in 1..Len(tabulator.rows) : tab_call(tabulator.rows[i], Decoded(l))

\* C4: when indices is supplied, the rows of a pass that has yielded its last
\* chunk are exactly the rows of the file lines in indices that are not
\* skipped, not empty and accepted by the tabulator.
IndicesExact ==
    (gen.pc = "tail" /\ IndicesTruthy(gen.p.indices)) =>
        LET got == {Flatten(out)[i].origin : i \in 1..Len(Flatten(out))}
        IN /\ \A l \in got : InIndices(l, gen.p.indices)
           /\ \A l \in 0..(Len(file) - 1) :
                 InIndices(l, gen.p.indices) /\ Qualifies(l) => l \in got

\* C5: a pass with indices = range(a, a) yields no row and logs no error.
EmptyIndices ==
    (InPass /\ gen.p.indices.kind = "range"
            /\ gen.p.indices.start = gen.p.indices.stop) =>
        /\ Flatten(out) = <<>>
        /\ errors = [casting |-> <<>>, ragged |-> <<>>]

\* The first data line of the Reader's header and of the metadata its
\* sniffer finds without one: h + 1, m + 1 or 0.
FirstDataLine ==
    LET m == metadata(sniffer, None).lines[2]
    IN IF header.line # None THEN header.line + 1
       ELSE IF m # None THEN m + 1
       ELSE 0

\* C6: the first data line the Reader computes is h + 1 for a header on line
\* h, m + 1 for metadata ending on line m and no header, and 0 without both.
AutostartCorrect ==
    /\ _datastart(header, sniffer) = FirstDataLine
    /\ _autostart(header, sniffer) = FirstDataLine

\* The line the caller asks read to start at: the first element of indices,
\* or start, or nothing (None).
AskedStart(p) ==
    CASE p.indices.kind = "range" /\ IndicesTruthy(p.indices) -> p.indices.start
      [] p.indices.kind = "seq" /\ IndicesTruthy(p.indices) -> p.indices.items[1]
      [] OTHER -> p.start

\* C7: a read whose start, or whose indices' first element, precedes the
\* first data line fails with the invalid-start error and yields nothing.
InvalidStart ==
    (/\ gen.pc \in {"suspended", "tail", "failed"}
     /\ AskedStart(gen.p) # None
     /\ AskedStart(gen.p) < _datastart(header, sniffer)) =>
        /\ gen.pc = "failed"
        /\ gen.err = "ValueError"
        /\ out = <<>>

\* C8: a pass consumed to exhaustion leaves the stream at offset 0, and the
\* pass after it, made with the same arguments, yields the same chunks.
Rewind ==
    /\ gen.pc = "done" => pos = 0
    /\ (gen.pc = "tail" /\ prev.some /\ prev.p = gen.p) => Chunks(out) = prev.out

\* The chunks of a pass that is pulled until it ends, from the state s its
\* body has run to.
RECURSIVE Exhaust(_, _, _, _)
Exhaust(f, c, s, acc) ==
    CASE s.res = "yield" -> Exhaust(f, c, loop(f, c, s), Append(acc, s.chunk))
      [] s.res = "tail" -> Append(acc, s.chunk)
      [] OTHER -> acc

\* The chunks of read() on a freshly constructed Reader of the file, its
\* stream at offset 0, with the arguments and the tabulator of the pass c.
FreshRead(f, c) == Chunks(Exhaust(f, c, startup(f, 0, c), <<>>))

\* C9: the pass that follows a pass dropped after a chunk was pulled, or
\* aborted by a raise_ragged error, yields the chunks of a read() on a freshly
\* constructed Reader of the same file.
ReusableAfterIncomplete ==
    (gen.pc = "tail" /\ gen.after \in {"dropped", "csv.Error"}) =>
        Chunks(out) = FreshRead(file, gen.c)

\* C10: the tabulator keeps a decoded row if and only if every tab holds on
\* it, so every row read has yielded satisfies all the tabs.
TabConjunction ==
    /\ \A i \in 1..Len(trace) :
          trace[i].kept <=>
             \A j \in 1..Len(tabulator.rows) : tab_call(tabulator.rows[j], trace[i].full)
    /\ \A i \in 1..Len(Flatten(out)) :
          \A j \in 1..Len(tabulator.rows) :
             tab_call(tabulator.rows[j], Flatten(out)[i].full)

\* A pass under two tabs has kept a row and has rejected a row on which one
\* tab holds and the other does not.
TabConjunctionWitness ==
    /\ Len(tabulator.rows) = 2
    /\ \E i \in 1..Len(trace) : trace[i].kept
    /\ \E i \in 1..Len(trace) :
          /\ ~trace[i].kept
          /\ \E j \in 1..2 : tab_call(tabulator.rows[j], trace[i].full)
    /\ Flatten(out) # <<>>

\* The keys of a dictionary row, in its order.
Keys(row) == [i \in 1..Len(row) |-> row[i].k]

\* C11: the keys of every row read has yielded are the tabulator's columns
\* in the order the caller gave them, and each value is the decoded cell of
\* its column.
ProjectionFaithful ==
    \A i \in 1..Len(Flatten(out)) :
        LET e == Flatten(out)[i]
        IN /\ Keys(e.row) = tabulator.columns
           /\ \A j \in 1..Len(e.row) : e.row[j].v = Get(e.full, e.row[j].k)

\* castings[name](val) left column j of the decoded row a raw string although
\* the column's type is another one.
CastFailed(full, tps, j) == full[j].v.t = "str" /\ tps[j] # "str"

\* The entries of errors.casting that name file line l and the column name.
CastingEntries(l, name) ==
    {n \in 1..Len(errors.casting) :
        errors.casting[n].line = l /\ name \in errors.casting[n].columns}

RaggedLine(l) == Len(file[l + 1]) # Len(header.names)

\* C13: a pass stops on a line with more or fewer fields than the header only
\* when raise_ragged is set, and then it always does; with raise_ragged off
\* every such line of the running pass has exactly one entry in errors.ragged
\* naming it, and its row is emitted unless the tabulator rejects it.
RaggedSoft ==
    /\ InPass =>
           \A i \in 1..Len(trace) :
               RaggedLine(trace[i].origin) =>
                   /\ ~gen.p.raise_ragged
                   /\ Cardinality({n \in 1..Len(errors.ragged) :
                                      errors.ragged[n].line = trace[i].origin}) = 1
                   /\ (\A r \in 1..Len(gen.c.tab.rows) :
                           tab_call(gen.c.tab.rows[r], trace[i].full)) => trace[i].kept
    /\ (/\ gen.pc = "failed"
        /\ gen.err \in {"KeyError", "csv.Error"}
        /\ pos > 0
        /\ RaggedLine(pos - 1)) => gen.p.raise_ragged

\* The entries the rows of the running pass leave in errors.ragged and in
\* errors.casting, in the order the rows were read.
PassRagged ==
    LET sel == SelectSeq(trace, LAMBDA t : \E j \in 1..Len(t.full) : t.full[j].v = NoneCell)
    IN [i \in 1..Len(sel) |-> [line |-> sel[i].line]]

PassCasting ==
    LET sel == SelectSeq(trace, LAMBDA t : miscast(t.full, gen.c.types) # {})
    IN [i \in 1..Len(sel) |->
            [line |-> sel[i].line, columns |-> miscast(sel[i].full, gen.c.types)]]

\* The line numbers of a log's entries increase.
Increasing(log) == \A i, j \in 1..Len(log) : i < j => log[i].line < log[j].line

Identity(tblr, hdr) ==
    /\ tblr.header = hdr
    /\ \A i \in 1..Len(tblr.rows) : tblr.rows[i].kind = "Accepting"
    /\ tblr.columns = hdr.names

\* C15: after a header assignment that raised nothing, by line number, by
\* list of names or by dict, the tabulator is the identity tabulator of the
\* new header, whatever tabs and columns were set before.
HeaderResetsTabulator ==
    (assigned.target = "header" /\ assigned.raised = "") =>
        Identity(tabulator, header)

\* A header was assigned by list of names while a tab and a projection of
\* one column were set, and the names changed.
HeaderResetsTabulatorWitness ==
    /\ assigned.target = "header"
    /\ assigned.raised = ""
    /\ assigned.value.kind = "list"
    /\ ~Identity(assigned.was.tabulator, assigned.was.header)
    /\ Len(assigned.was.tabulator.columns) = 1
    /\ assigned.was.tabulator.rows[1].kind = "Equality"
    /\ header.names # assigned.was.header.names

\* C16: after an assignment to the sniffer's start, amount or skips through
\* reader.sniffer, made while the header was the sniffer's, the header is the
\* one the sniffer derives from its new sample and the tabulator is the
\* identity tabulator of that header.
SnifferChangeResniffs ==
    (/\ assigned.target \in {"start", "amount", "skips"}
     /\ assigned.was.origin = "sniffer") =>
        /\ header = sniffer_header(sniffer)
        /\ Identity(tabulator, header)

HeaderIdempotent ==
    (assigned.target = "header" /\ assigned.value = HeaderValue) =>
        /\ assigned.raised = ""
        /\ header.names = assigned.was.header.names
        /\ Identity(tabulator, header)

\* C19: after a header assignment that raised (a list of the wrong length, a
\* line of another width, a value of an unsupported type) the header is what
\* it was and the tabulator is the identity tabulator of that header.
InvalidHeaderSafe ==
    (assigned.target = "header" /\ assigned.raised # "") =>
        /\ header = assigned.was.header
        /\ Identity(tabulator, header)

\* C20: the sniffer's sample window lies inside the file: the start is at
\* most line_count - 1, the amount at most line_count - start, every sampled
\* line number is below line_count, and there are as many sampled line
\* numbers as sampled lines.
SampleInsideFile ==
    /\ sniffer.start <= line_count(file) - 1
    /\ sniffer.amount <= line_count(file) - sniffer.start
    /\ \A i \in 1..Len(sniffer.sample.line_nums) :
           sniffer.sample.line_nums[i] < line_count(file)
    /\ Len(sniffer.sample.line_nums) = Len(sniffer.sample.lines)

\* C21: when the detector finds no dialect, Sniffer construction raises
\* nothing, warns and leaves the dialect None; and with the dialect None,
\* rows, header and metadata raise nothing when a delimiter is passed.
DialectFailureSoft ==
    /\ (probe.call = "Sniffer" /\ ~probe.found.some) =>
           /\ probe.raised = ""
           /\ probe.warned
           /\ ~probe.dialect.some
    /\ (/\ probe.call \in {"rows", "header", "metadata"}
        /\ ~probe.dialect.some
        /\ probe.delimiter.some) => probe.raised = ""

\* The rows the tabulator accepted in the pass so far, in the order in which
\* it accepted them.
Accepted ==
    LET kept == SelectSeq(trace, LAMBDA t : t.kept)
    IN [i \in 1..Len(kept) |-> [origin |-> kept[i].origin, full |-> kept[i].full]]

\* The rows of a sequence of FIFO entries.
Entries(fifo) ==
    [i \in 1..Len(fifo) |-> [origin |-> fifo[i].origin, full |-> fifo[i].full]]

\* C30: during a pass the FIFO never holds more than chunksize rows, not even
\* when it is drained (the chunk drained and the rows left behind are
\* together what it held); the chunks yielded so far, followed by the rows still in the FIFO, are the
\* accepted rows in the order of their acceptance; and once the rows are
\* exhausted the tail has been yielded, so that the chunks alone are the
\* accepted rows, the tail being empty exactly when their number is a
\* multiple of chunksize.
BufferFaithful ==
    InPass =>
        /\ Len(gen.fifo) <= gen.p.chunksize
        /\ gen.pc = "suspended" =>
               /\ Len(Last(out)) + Len(gen.fifo) <= gen.p.chunksize
               /\ Entries(Flatten(out)) \o Entries(gen.fifo) = Accepted
        /\ gen.pc = "tail" =>
               /\ Len(out) >= 1
               /\ Entries(Flatten(out)) = Accepted
               /\ Len(Last(out)) = Len(Accepted) % gen.p.chunksize

\* A pass with a chunksize of two or more that yielded a full chunk, left out
\* a row the tabulator rejected and yielded a tail that is not empty.
BufferFaithfulWitness ==
    /\ gen.pc = "tail"
    /\ gen.p.chunksize >= 2
    /\ Len(out) >= 2
    /\ Last(out) # <<>>
    /\ \E i \in 1..Len(trace) : ~trace[i].kept

-----------------------------------------------------------------------------
(* Properties of the tabs and of a Tabulator *)

\* The logicals of a comparison string.
Logicals(tab) == {i \in 1..Len(tab.comparison) : tab.comparison[i] \in {"and", "or"}}

\* C22: a Comparison whose string holds more than two comparisons, joined by
\* any mix of and / or, raises an error instead of giving a boolean.
TwoComparisonsAtMost ==
    (probe.call = "Comparison" /\ Cardinality(Logicals(probe.tab)) > 1) =>
        probe.raised # ""

\* C23: a single comparison, with any of the six comparators, between a cell
\* and an operand of another type raises nothing and gives the tab's
\* permissive flag.
IncompatiblePermissive ==
    (/\ probe.call = "Comparison"
     /\ Logicals(probe.tab) = {}
     /\ Get(probe.row, probe.tab.name).t # convert(join(Tail(probe.tab.comparison))).t) =>
        /\ probe.raised = ""
        /\ probe.value = probe.tab.permissive

\* C24: a Regex tab applied to a row whose cell is not text raises nothing.
RegexNeverRaises ==
    (probe.call = "Regex" /\ Get(probe.row, probe.tab.name).t # "str") =>
        probe.raised = ""

\* C25: a Tabulator built with a single compiled pattern as its columns is
\* accepted and projects exactly the header names the pattern matches, in
\* header order; built with a list of indices of the header it projects the
\* names at those indices in the given order.
ColumnsResolved ==
    /\ (probe.call = "Tabulator" /\ probe.columns.kind = "pattern") =>
           /\ probe.raised = ""
           /\ probe.result = SelectSeq(probe.header.names,
                                       LAMBDA x : x \in probe.columns.found)
    /\ (/\ probe.call = "Tabulator"
        /\ probe.columns.kind = "indices"
        /\ \A i \in 1..Len(probe.columns.vals) :
               probe.columns.vals[i] < Len(probe.header.names)) =>
           /\ probe.raised = ""
           /\ probe.result = [i \in 1..Len(probe.columns.vals) |->
                                  At(probe.header.names, probe.columns.vals[i])]

-----------------------------------------------------------------------------
(* Properties of a Sniffer *)

\* C26: metadata(None) on a sample whose last row is all numeric ends the
\* metadata at the largest of the mislengthed and the nonnumeric lines only,
\* never at a line that is merely disjoint from the rows below it; without
\* such a line it is MetaData((0, None), None).
MetadataAllNumeric ==
    (/\ probe.call = "metadata"
     /\ probe.raised = ""
     /\ \A c \in Range(Last(rows(probe.sniffer))) : is_numeric(c)) =>
        LET rws == rows(probe.sniffer)
            line_nums == probe.sniffer.sample.line_nums
            nums == {x \in {_mislengthed(rws, line_nums), _nonnumeric(rws, line_nums)} :
                        Truthy(x)}
        IN IF nums = {}
           THEN probe.result = [lines |-> <<0, None>>, string |-> NoString]
           ELSE probe.result.lines = <<0, Maximum(nums)>>

\* C27: header() on a sample whose last row has no numeric cell reports the
\* last row above the last one that shares no cell with any row below it and
\* has no empty cell, provided it has the length of the last row; otherwise
\* it reports no line and the names Column_0, Column_1, ...
HeaderCaseB ==
    (/\ probe.call = "header"
     /\ probe.raised = ""
     /\ ~(\E c \in Range(Last(rows(probe.sniffer))) : is_numeric(c))) =>
        LET rws == rows(probe.sniffer)
            line_nums == probe.sniffer.sample.line_nums
            hits == {i \in 1..(Len(rws) - 1) :
                        /\ \A j \in (i + 1)..Len(rws) :
                               Range(rws[i]) \cap Range(rws[j]) = {}
                        /\ \A c \in Range(rws[i]) : c # ""}
            top == Maximum(hits)
        IN IF hits # {} /\ Len(rws[top]) = Len(Last(rws))
           THEN probe.result = Header(line_nums[top], rws[top])
           ELSE probe.result = Header(None, SubSeq(ColumnNames, 1, Len(Last(rws))))

-----------------------------------------------------------------------------
(* Properties of two Readers *)

\* The other Reader of the pair.
Other(r) == IF r = "A" THEN "B" ELSE "A"

\* C28: a call on one Reader (its construction, an assignment to its
\* sniffer's start, amount or skips, its header set by line number) leaves
\* the header, the tabulator and the error log of the other Reader as they
\* were.
ReadersIsolated ==
    [][\A r \in {"A", "B"} :
           (probe'.call = "Reader" /\ probe'.reader = r /\ readers[Other(r)].made) =>
               /\ reader_header(readers', Other(r)) = reader_header(readers, Other(r))
               /\ readers'[Other(r)].tabulator = readers[Other(r)].tabulator
               /\ readers'[Other(r)].errors = readers[Other(r)].errors]_vars

\* C29: in every state the tabulator of a Reader is bound to the Reader's
\* current header: its header is the Reader's header and the names it
\* projects are names of that header.
TabulatorBound ==
    /\ tabulator.header = header
    /\ Range(tabulator.columns) \subseteq Range(header.names)
    /\ \A r \in {"A", "B"} :
           readers[r].made =>
               /\ readers[r].tabulator.header = reader_header(readers, r)
               /\ Range(readers[r].tabulator.columns)
                      \subseteq Range(reader_header(readers, r).names)

=============================================================================
